---- MODULE Spec2Model ----
(***************************************************************************)
(* State machine of the useLiveSession hook (src/unnamed/part_000) and of  *)
(* saveTranscript (src/utils/firebase.ts).                                 *)
(*                                                                         *)
(* Every handler of the hook runs to completion on the single JavaScript   *)
(* thread, so each action below is one whole handler (or one whole         *)
(* continuation after an await).  A handler is written as a function from  *)
(* a record of the mutable state to the record after it, in the order of   *)
(* the statements of the source.                                           *)
(*                                                                         *)
(* Objects are named by the number of the connect() call that made them:   *)
(* audio contexts, microphone stream, volume loop and channel k all belong *)
(* to the k-th connect().  0 stands for null.                              *)
(*                                                                         *)
(* Text is a sequence of characters; "a" is any non-blank character and    *)
(* " " a blank one.                                                        *)
(***************************************************************************)
EXTENDS Integers, Sequences, FiniteSets, TLC

\* ---- bounds of the model ------------------------------------------------
\* Spec: connect() calls and inbound messages of a run, largest audio clock
\* value, longest segment
MaxConnects == 2
MaxMsgs == 1
MaxClock == 1
MaxDur == 1
\* SpecTranscript: one session on the shortest time line, more messages
TextMsgs == 2
\* SpecPlayback: one connect() and messages without transcription text, but
\* more of them, and a longer time line
PlayMsgs == 3
PlayClock == 2
PlayDur == 2
ReconnectMsgs == 2

VARIABLES
    status,             \* useState<SessionStatus>
    isSpeaking,         \* useState(false)
    inputContextRef,    \* 0 or the id of the input AudioContext
    outputContextRef,   \* 0 or the id of the output AudioContext
    outputGainNodeRef,  \* 0 or the id of the context owning the gain node
    processorRef,       \* 0 or the channel whose onopen made the processor
    nextStartTimeRef,   \* playback cursor
    activeSourcesRef,   \* set of started buffer sources
    sessionRef,         \* 0 or the channel whose promise is stored
    streamRef,          \* 0 or the id of the MediaStream
    currentInputRef,    \* user transcript buffer
    currentOutputRef,   \* model transcript buffer
    sessionIdRef,       \* session identifier (0 = the one made at mount)
    rafIdRef,           \* 0 or the volume loop owning the pending frame
    inputContexts,      \* input contexts created and not closed
    outputContexts,     \* output contexts created and not closed
    tracks,             \* microphone streams whose tracks are live
    frames,             \* volume loops with a requested animation frame
    capture,            \* processors connected in the input graph
    stopped,            \* sources stopped by force, 'ended' not yet fired
    pending,            \* onmessage handlers suspended in decodeAudioData
    writes,             \* addDoc calls issued by the step just taken
    channel,            \* channel k: none, opening, open, closed, failed
    pc,                 \* position of the k-th connect() call
    clock,              \* currentTime of output context k
    apiKey,             \* process.env.API_KEY is set
    msgCount,           \* inbound messages delivered so far
    flushed,            \* an interruption flushed playback, no audio since
    userStopped,        \* disconnect() was called, no connect() since
    enqueued,           \* output contexts an audio segment was enqueued for
    limits,             \* connect() calls and messages this run may make
    lastOp              \* the handler that ran last, with its input

vars == <<status, isSpeaking, inputContextRef, outputContextRef,
          outputGainNodeRef, processorRef, nextStartTimeRef,
          activeSourcesRef, sessionRef, streamRef, currentInputRef,
          currentOutputRef, sessionIdRef, rafIdRef, inputContexts,
          outputContexts, tracks, frames, capture, stopped, pending, writes,
          channel, pc, clock, apiKey, msgCount, flushed, userStopped,
          enqueued, limits, lastOp>>

Ids == 1..MaxConnects

\* ---- text ---------------------------------------------------------------
Blank == " "

\* the fragments a message can carry; <<>> is an absent (or empty) text
Texts == {<<>>, <<"a">>, <<Blank>>}

\* the literal " [INTERRUPTED]"
InterruptedMark == <<Blank, "[INTERRUPTED]">>

RECURSIVE TrimStart(_)
TrimStart(t) ==
    IF t # <<>> /\ Head(t) = Blank THEN TrimStart(Tail(t)) ELSE t

RECURSIVE TrimEnd(_)
TrimEnd(t) ==
    IF t # <<>> /\ t[Len(t)] = Blank
    THEN TrimEnd(SubSeq(t, 1, Len(t) - 1))
    ELSE t

\* String.prototype.trim
Trim(t) == TrimEnd(TrimStart(t))

\* ---- the state as one record -------------------------------------------
Cur ==
    [status |-> status, isSpeaking |-> isSpeaking,
     inputContextRef |-> inputContextRef,
     outputContextRef |-> outputContextRef,
     outputGainNodeRef |-> outputGainNodeRef,
     processorRef |-> processorRef,
     nextStartTimeRef |-> nextStartTimeRef,
     activeSourcesRef |-> activeSourcesRef,
     sessionRef |-> sessionRef, streamRef |-> streamRef,
     currentInputRef |-> currentInputRef,
     currentOutputRef |-> currentOutputRef,
     sessionIdRef |-> sessionIdRef, rafIdRef |-> rafIdRef,
     inputContexts |-> inputContexts, outputContexts |-> outputContexts,
     tracks |-> tracks, frames |-> frames, capture |-> capture,
     stopped |-> stopped, pending |-> pending, writes |-> <<>>,
     channel |-> channel, pc |-> pc, flushed |-> flushed]

Set(s) ==
    /\ status' = s.status
    /\ isSpeaking' = s.isSpeaking
    /\ inputContextRef' = s.inputContextRef
    /\ outputContextRef' = s.outputContextRef
    /\ outputGainNodeRef' = s.outputGainNodeRef
    /\ processorRef' = s.processorRef
    /\ nextStartTimeRef' = s.nextStartTimeRef
    /\ activeSourcesRef' = s.activeSourcesRef
    /\ sessionRef' = s.sessionRef
    /\ streamRef' = s.streamRef
    /\ currentInputRef' = s.currentInputRef
    /\ currentOutputRef' = s.currentOutputRef
    /\ sessionIdRef' = s.sessionIdRef
    /\ rafIdRef' = s.rafIdRef
    /\ inputContexts' = s.inputContexts
    /\ outputContexts' = s.outputContexts
    /\ tracks' = s.tracks
    /\ frames' = s.frames
    /\ capture' = s.capture
    /\ stopped' = s.stopped
    /\ pending' = s.pending
    /\ writes' = s.writes
    /\ channel' = s.channel
    /\ pc' = s.pc
    /\ flushed' = s.flushed

NoMsg ==
    [inText |-> <<>>, outText |-> <<>>, turnComplete |-> FALSE,
     interrupted |-> FALSE, audio |-> 0]

NoSeg == [id |-> 0, ctx |-> 0, start |-> 0, dur |-> 0, at |-> 0,
          enq |-> 0, fresh |-> FALSE]

\* what lastOp records: the handler, the channel or connect() call it belongs
\* to, the inbound message, the source it started, whether it threw (into
\* the catch block of connect, or out of onmessage), and whether the handler
\* that ran before it was the same one
Op(name, k) ==
    [op |-> name, chan |-> k, msg |-> NoMsg, seg |-> NoSeg, caught |-> FALSE,
     again |-> FALSE]

\* ---- src/utils/firebase.ts ----------------------------------------------
\* saveTranscript: returns without a write when the text is empty or blank,
\* otherwise hands (sessionId, role, text.trim()) to addDoc.  A failure of
\* addDoc is caught and logged there; nothing of it reaches the caller.
\* saveTranscript with the guard on empty or blank text left out
saveTranscriptNoGuard(s, role, text, sessionId) ==
    [s EXCEPT !.writes = Append(@, [role |-> role, text |-> Trim(text),
                                    sessionId |-> sessionId])]

saveTranscript(s, role, text, sessionId) ==
    IF text = <<>> \/ Trim(text) = <<>>
    THEN s
    ELSE [s EXCEPT !.writes = Append(@, [role |-> role, text |-> Trim(text),
                                         sessionId |-> sessionId])]

\* ---- useLiveSession.cleanup (also returned as disconnect) ---------------
\* cleanup with the two `current...Ref.current = ''` statements left out
cleanupKeepsBuffers(s) ==
    LET s1 == [s EXCEPT
                 !.sessionRef = 0,
                 !.stopped = @ + Cardinality(s.activeSourcesRef),
                 !.activeSourcesRef = {},
                 !.capture = {p \in @ : p.chan # s.processorRef},
                 !.inputContexts = @ \ {s.inputContextRef},
                 !.outputContexts = @ \ {s.outputContextRef},
                 !.tracks = @ \ {s.streamRef},
                 !.streamRef = 0,
                 !.frames = @ \ {s.rafIdRef},
                 !.rafIdRef = 0]
        s2 == IF s1.currentInputRef # <<>>
              THEN saveTranscript(s1, "user", s1.currentInputRef,
                                  s1.sessionIdRef)
              ELSE s1
        s3 == IF s2.currentOutputRef # <<>>
              THEN saveTranscript(s2, "model", s2.currentOutputRef,
                                  s2.sessionIdRef)
              ELSE s2
    IN  [s3 EXCEPT !.inputContextRef = 0, !.outputContextRef = 0,
                   !.status = "disconnected", !.isSpeaking = FALSE]

cleanup(s) ==
    LET \* sessionRef, active sources, audio nodes, contexts, microphone,
        \* animation frame
        s1 == [s EXCEPT
                 !.sessionRef = 0,
                 !.stopped = @ + Cardinality(s.activeSourcesRef),
                 !.activeSourcesRef = {},
                 !.capture = {p \in @ : p.chan # s.processorRef},
                 !.inputContexts = @ \ {s.inputContextRef},
                 !.outputContexts = @ \ {s.outputContextRef},
                 !.tracks = @ \ {s.streamRef},
                 !.streamRef = 0,
                 !.frames = @ \ {s.rafIdRef},
                 !.rafIdRef = 0]
        \* pending partial transcripts
        s2 == IF s1.currentInputRef # <<>>
              THEN [saveTranscript(s1, "user", s1.currentInputRef,
                                   s1.sessionIdRef)
                      EXCEPT !.currentInputRef = <<>>]
              ELSE s1
        s3 == IF s2.currentOutputRef # <<>>
              THEN [saveTranscript(s2, "model", s2.currentOutputRef,
                                   s2.sessionIdRef)
                      EXCEPT !.currentOutputRef = <<>>]
              ELSE s2
    IN  [s3 EXCEPT !.inputContextRef = 0, !.outputContextRef = 0,
                   !.status = "disconnected", !.isSpeaking = FALSE]

\* ---- useLiveSession.connect ---------------------------------------------
\* the catch block of connect
connectCatch(s) == cleanup([s EXCEPT !.status = "error"])

\* connect() from the new session id up to `await getUserMedia`.
\* fail says which constructor throws: "input", "output" or "none".
connectBegin(s, k, fail) ==
    LET s0 == [s EXCEPT !.sessionIdRef = k, !.status = "connecting"]
        s1 == [s0 EXCEPT !.inputContextRef = k,
                         !.inputContexts = @ \cup {k}]
        s2 == [s1 EXCEPT !.outputContextRef = k,
                         !.outputContexts = @ \cup {k},
                         !.frames = @ \cup {k},
                         !.rafIdRef = k,
                         !.outputGainNodeRef = k,
                         !.pc[k] = "getUserMedia"]
    IN  CASE fail = "input" -> connectCatch(s0)
          [] fail = "output" -> connectCatch(s1)
          [] OTHER -> s2

\* the API key guard with its `return` left out
connectNoKeyFallsThrough(s) ==
    connectBegin([s EXCEPT !.status = "error"], s.sessionIdRef + 1, "none")

\* the API key guard: status error, return
connectNoKey(s) == [s EXCEPT !.status = "error"]

\* connectResume with the capture pipeline set up right after the channel is
\* asked for, instead of in onopen
connectResumeStartsCapture(s, k, throws) ==
    LET s1 == [s EXCEPT !.streamRef = k, !.tracks = @ \cup {k},
                        !.pc[k] = "done"]
    IN  IF throws
        THEN connectCatch(s1)
        ELSE IF s1.inputContextRef = 0
        THEN [s1 EXCEPT !.channel[k] = "opening", !.sessionRef = k]
        ELSE [s1 EXCEPT
                !.channel[k] = "opening", !.sessionRef = k,
                !.processorRef = k,
                !.capture = @ \cup {[chan |-> k, ctx |-> s1.inputContextRef]}]

\* connect() after getUserMedia resolved: the stream is stored and the
\* channel is asked for; throws says that opening the channel throws.
connectResume(s, k, throws) ==
    LET s1 == [s EXCEPT !.streamRef = k, !.tracks = @ \cup {k},
                        !.pc[k] = "done"]
    IN  IF throws
        THEN connectCatch(s1)
        ELSE [s1 EXCEPT !.channel[k] = "opening", !.sessionRef = k]

\* connect() after getUserMedia rejected
connectReject(s, k) == connectCatch([s EXCEPT !.pc[k] = "done"])

\* ---- the channel callbacks ----------------------------------------------
onopen(s, k) ==
    LET s1 == [s EXCEPT !.status = "connected", !.channel[k] = "open"]
    IN  IF s1.inputContextRef = 0 \/ s1.streamRef = 0
        THEN s1
        ELSE [s1 EXCEPT
                !.processorRef = k,
                !.capture = @ \cup {[chan |-> k, ctx |-> s1.inputContextRef]}]

onclose(s, k) == [s EXCEPT !.status = "disconnected", !.channel[k] = "closed"]

\* (a channel that fails before it opened is "failed", one that was open is
\* "closed": no callback of either fires afterwards)
onerror(s, k) ==
    [s EXCEPT !.status = "error",
              !.channel[k] = IF s.channel[k] = "open" THEN "closed"
                             ELSE "failed"]

Max(a, b) == IF a >= b THEN a ELSE b

\* 1. transcription fragments
onmessageText(s, m) ==
    [s EXCEPT !.currentInputRef = @ \o m.inText,
              !.currentOutputRef = @ \o m.outText]

\* the turn completion with `currentOutputRef.current = ''` left out
onmessageTurnKeepsOutput(s, m) ==
    IF ~m.turnComplete THEN s
    ELSE
    LET s1 == IF s.currentInputRef # <<>>
              THEN [saveTranscript(s, "user", s.currentInputRef,
                                   s.sessionIdRef)
                      EXCEPT !.currentInputRef = <<>>]
              ELSE s
        s2 == IF s1.currentOutputRef # <<>>
              THEN saveTranscript(s1, "model", s1.currentOutputRef,
                                  s1.sessionIdRef)
              ELSE s1
    IN  [s2 EXCEPT !.isSpeaking = FALSE]

\* 2. turn completion
onmessageTurn(s, m) ==
    IF ~m.turnComplete THEN s
    ELSE
    LET s1 == IF s.currentInputRef # <<>>
              THEN [saveTranscript(s, "user", s.currentInputRef,
                                   s.sessionIdRef)
                      EXCEPT !.currentInputRef = <<>>]
              ELSE s
        s2 == IF s1.currentOutputRef # <<>>
              THEN [saveTranscript(s1, "model", s1.currentOutputRef,
                                   s1.sessionIdRef)
                      EXCEPT !.currentOutputRef = <<>>]
              ELSE s1
    IN  [s2 EXCEPT !.isSpeaking = FALSE]

\* 3. interruption: the body of `if (serverContent?.interrupted)`
onmessageInterrupted(s) ==
    LET s1 == IF s.currentOutputRef # <<>>
              THEN [saveTranscript(s, "model",
                                   s.currentOutputRef \o InterruptedMark,
                                   s.sessionIdRef)
                      EXCEPT !.currentOutputRef = <<>>]
              ELSE s
    IN  [s1 EXCEPT !.stopped = @ + Cardinality(s.activeSourcesRef),
                   !.activeSourcesRef = {},
                   !.nextStartTimeRef = 0,
                   !.isSpeaking = FALSE,
                   !.flushed = TRUE]

\* 4. audio data, up to `await decodeAudioData`; id names the message
onmessageAudio(s, m, id) ==
    IF m.audio = 0 \/ s.outputContextRef = 0 \/ s.outputGainNodeRef = 0
    THEN s
    ELSE
    LET ctx == s.outputContextRef
    IN  [s EXCEPT
           !.isSpeaking = TRUE,
           !.nextStartTimeRef = Max(@, clock[ctx]),
           !.pending = @ \cup {[id |-> id, ctx |-> ctx, dur |-> m.audio,
                                enq |-> clock[ctx], fresh |-> s.flushed]},
           !.flushed = FALSE]

\* onmessage with the `return` of the interruption branch left out
onmessageNoReturn(s, m, id) ==
    LET s2 == onmessageTurn(onmessageText(s, m), m)
    IN  IF m.interrupted
        THEN onmessageAudio(onmessageInterrupted(s2), m, id)
        ELSE onmessageAudio(s2, m, id)

\* the whole synchronous part of onmessage
onmessage(s, m, id) ==
    LET s2 == onmessageTurn(onmessageText(s, m), m)
    IN  IF m.interrupted
        THEN onmessageInterrupted(s2)
        ELSE onmessageAudio(s2, m, id)

\* the source the continuation of onmessage starts for pending decode p
Segment(s, p) ==
    [id |-> p.id, ctx |-> p.ctx, start |-> s.nextStartTimeRef,
     dur |-> p.dur, at |-> clock[p.ctx], enq |-> p.enq, fresh |-> p.fresh]

\* onmessage after decodeAudioData resolved.  source.connect throws when
\* the gain node of the ref belongs to another context than the captured
\* one, and the handler ends there.
onmessageResume(s, p) ==
    LET s1 == [s EXCEPT !.pending = @ \ {p}]
    IN  IF s.outputGainNodeRef # p.ctx
        THEN s1
        ELSE [s1 EXCEPT
                !.nextStartTimeRef = @ + p.dur,
                !.activeSourcesRef = @ \cup {Segment(s, p)}]

\* onmessage ending in setStatus('error') when decodeAudioData rejects
onmessageDecodeErrorSetsError(s, p) ==
    [s EXCEPT !.pending = @ \ {p}, !.status = "error"]

\* onmessage after decodeAudioData rejected: nothing catches the rejection
\* and the rest of the handler is skipped
onmessageDecodeError(s, p) == [s EXCEPT !.pending = @ \ {p}]

\* source.onended
onended(s, src) ==
    LET s1 == [s EXCEPT !.activeSourcesRef = @ \ {src}]
    IN  IF s1.activeSourcesRef = {}
        THEN [s1 EXCEPT !.isSpeaking = FALSE]
        ELSE s1

\* updateVolume run by loop l: requests the next frame
updateVolume(s, l) == [s EXCEPT !.rafIdRef = l]

\* ---- inputs -------------------------------------------------------------
\* an inbound LiveServerMessage; audio is the duration of the inline audio
\* data, 0 when the message carries none
Msgs ==
    [inText : limits.texts, outText : limits.texts, turnComplete : BOOLEAN,
     interrupted : BOOLEAN, audio : 0..limits.dur]

Fails == {"none", "input", "output"}

\* ---- initial state: the hook right after mount ---------------------------
InitState ==
    /\ status = "disconnected"
    /\ isSpeaking = FALSE
    /\ inputContextRef = 0
    /\ outputContextRef = 0
    /\ outputGainNodeRef = 0
    /\ processorRef = 0
    /\ nextStartTimeRef = 0
    /\ activeSourcesRef = {}
    /\ sessionRef = 0
    /\ streamRef = 0
    /\ currentInputRef = <<>>
    /\ currentOutputRef = <<>>
    /\ sessionIdRef = 0
    /\ rafIdRef = 0
    /\ inputContexts = {}
    /\ outputContexts = {}
    /\ tracks = {}
    /\ frames = {}
    /\ capture = {}
    /\ stopped = 0
    /\ pending = {}
    /\ writes = <<>>
    /\ channel = [k \in Ids |-> "none"]
    /\ pc = [k \in Ids |-> "none"]
    /\ clock = [k \in Ids |-> 0]
    /\ apiKey \in BOOLEAN
    /\ msgCount = 0
    /\ flushed = FALSE
    /\ userStopped = FALSE
    /\ enqueued = {}
    /\ lastOp = Op("mount", 0)

Init ==
    /\ InitState
    /\ limits = [connects |-> MaxConnects, msgs |-> MaxMsgs, texts |-> Texts,
                 clock |-> MaxClock, dur |-> MaxDur]

InitTranscript ==
    /\ InitState
    /\ limits = [connects |-> 1, msgs |-> TextMsgs, texts |-> Texts,
                 clock |-> 1, dur |-> 1]

InitPlayback ==
    /\ InitState
    /\ limits = [connects |-> 1, msgs |-> PlayMsgs, texts |-> {<<>>},
                 clock |-> PlayClock, dur |-> PlayDur]

InitReconnect ==
    /\ InitState
    /\ limits = [connects |-> 2, msgs |-> ReconnectMsgs, texts |-> {<<>>},
                 clock |-> 1, dur |-> 1]

\* ---- actions ------------------------------------------------------------
\* connect() with the API key missing
ConnectNoKey ==
    /\ ~apiKey
    /\ Set(connectNoKey(Cur))
    /\ lastOp' = Op("connectNoKey", 0)
    /\ userStopped' = FALSE
    /\ UNCHANGED <<clock, apiKey, msgCount, enqueued, limits>>

\* connect() up to its first await (or its catch block)
Connect(fail) ==
    /\ apiKey
    /\ sessionIdRef < limits.connects
    /\ LET k == sessionIdRef + 1
       IN  /\ Set(connectBegin(Cur, k, fail))
           /\ lastOp' = [Op("connect", k) EXCEPT !.caught = (fail # "none")]
    /\ userStopped' = FALSE
    /\ UNCHANGED <<clock, apiKey, msgCount, enqueued, limits>>

\* getUserMedia resolves and connect() k runs to its end
MicGranted(k, throws) ==
    /\ pc[k] = "getUserMedia"
    /\ Set(connectResume(Cur, k, throws))
    /\ lastOp' = [Op("connectResume", k) EXCEPT !.caught = throws]
    /\ UNCHANGED <<clock, apiKey, msgCount, userStopped, enqueued, limits>>

\* getUserMedia rejects and connect() k runs its catch block
MicDenied(k) ==
    /\ pc[k] = "getUserMedia"
    /\ Set(connectReject(Cur, k))
    /\ lastOp' = [Op("connectReject", k) EXCEPT !.caught = TRUE]
    /\ UNCHANGED <<clock, apiKey, msgCount, userStopped, enqueued, limits>>

\* disconnect()
Disconnect ==
    /\ Set(cleanup(Cur))
    /\ lastOp' = [Op("disconnect", 0) EXCEPT
                    !.again = (lastOp.op = "disconnect")]
    /\ userStopped' = TRUE
    /\ UNCHANGED <<clock, apiKey, msgCount, enqueued, limits>>

Opened(k) ==
    /\ channel[k] = "opening"
    /\ Set(onopen(Cur, k))
    /\ lastOp' = Op("onopen", k)
    /\ UNCHANGED <<clock, apiKey, msgCount, userStopped, enqueued, limits>>

Message(k, m) ==
    /\ channel[k] = "open"
    /\ msgCount < limits.msgs
    /\ msgCount' = msgCount + 1
    /\ Set(onmessage(Cur, m, msgCount + 1))
    /\ lastOp' = [Op("onmessage", k) EXCEPT !.msg = m]
    /\ enqueued' = IF pending' # pending
                   THEN enqueued \cup {outputContextRef} ELSE enqueued
    /\ UNCHANGED <<clock, apiKey, userStopped, limits>>

Closed(k) ==
    /\ channel[k] = "open"
    /\ Set(onclose(Cur, k))
    /\ lastOp' = Op("onclose", k)
    /\ UNCHANGED <<clock, apiKey, msgCount, userStopped, enqueued, limits>>

Failed(k) ==
    /\ channel[k] \in {"opening", "open"}
    /\ Set(onerror(Cur, k))
    /\ lastOp' = Op("onerror", k)
    /\ UNCHANGED <<clock, apiKey, msgCount, userStopped, enqueued, limits>>

\* decodeAudioData of pending handler p resolves
Decoded(p) ==
    /\ p \in pending
    /\ Set(onmessageResume(Cur, p))
    /\ lastOp' = [Op("decoded", 0) EXCEPT
                    !.seg = IF outputGainNodeRef = p.ctx
                            THEN Segment(Cur, p) ELSE NoSeg,
                    !.caught = (outputGainNodeRef # p.ctx)]
    /\ UNCHANGED <<clock, apiKey, msgCount, userStopped, enqueued, limits>>

\* decodeAudioData of pending handler p rejects
DecodeFailed(p) ==
    /\ p \in pending
    /\ Set(onmessageDecodeError(Cur, p))
    /\ lastOp' = Op("decodeError", 0)
    /\ UNCHANGED <<clock, apiKey, msgCount, userStopped, enqueued, limits>>

\* a started source plays to its end on a running context
Ended(src) ==
    /\ src \in activeSourcesRef
    /\ src.ctx \in outputContexts
    /\ clock[src.ctx] >= Max(src.start, src.at) + src.dur
    /\ Set(onended(Cur, src))
    /\ lastOp' = Op("onended", 0)
    /\ UNCHANGED <<clock, apiKey, msgCount, userStopped, enqueued, limits>>

\* the 'ended' event of a source that stop() ended: it is no longer in the
\* set, so onended only looks at the size of the set
StoppedEnded ==
    /\ stopped > 0
    /\ Set([Cur EXCEPT !.stopped = @ - 1,
                       !.isSpeaking = IF activeSourcesRef = {}
                                      THEN FALSE ELSE @])
    /\ lastOp' = Op("onendedStopped", 0)
    /\ UNCHANGED <<clock, apiKey, msgCount, userStopped, enqueued, limits>>

\* time passes: the audio clock of every running output context advances
Tick ==
    /\ \E k \in outputContexts : clock[k] < limits.clock
    /\ clock' = [k \in Ids |->
                   IF k \in outputContexts /\ clock[k] < limits.clock
                   THEN clock[k] + 1 ELSE clock[k]]
    /\ Set([Cur EXCEPT !.writes = writes])
    /\ UNCHANGED <<apiKey, msgCount, userStopped, enqueued, limits, lastOp>>

\* an animation frame of volume loop l
VolumeFrame(l) ==
    /\ l \in frames
    /\ Set(updateVolume(Cur, l))
    /\ lastOp' = Op("updateVolume", l)
    /\ UNCHANGED <<clock, apiKey, msgCount, userStopped, enqueued, limits>>

\* onaudioprocess of a connected processor on a running input context:
\* the chunk is sent on the channel of the closure
AudioProcess(p) ==
    /\ p \in capture
    /\ p.ctx \in inputContexts
    /\ Set(Cur)
    /\ lastOp' = Op("sendRealtimeInput", p.chan)
    /\ UNCHANGED <<clock, apiKey, msgCount, userStopped, enqueued, limits>>

Next ==
    \/ ConnectNoKey
    \/ \E fail \in Fails : Connect(fail)
    \/ \E k \in Ids, throws \in BOOLEAN : MicGranted(k, throws)
    \/ \E k \in Ids : MicDenied(k)
    \/ Disconnect
    \/ \E k \in Ids : Opened(k)
    \/ \E k \in Ids, m \in Msgs : Message(k, m)
    \/ \E k \in Ids : Closed(k)
    \/ \E k \in Ids : Failed(k)
    \/ \E p \in pending : Decoded(p)
    \/ \E p \in pending : DecodeFailed(p)
    \/ \E src \in activeSourcesRef : Ended(src)
    \/ StoppedEnded
    \/ Tick
    \/ \E l \in Ids : VolumeFrame(l)
    \/ \E p \in capture : AudioProcess(p)

Spec == Init /\ [][Next]_vars

SpecTranscript == InitTranscript /\ [][Next]_vars

SpecPlayback == InitPlayback /\ [][Next]_vars

SpecReconnect == InitReconnect /\ [][Next]_vars

\* ==== claims ==============================================================
EndsWithMark(text) ==
    Len(text) >= 2 /\ SubSeq(text, Len(text) - 1, Len(text)) = InterruptedMark

\* the step is the handling of an inbound message that sets interrupted and
\* carries inline audio data
InterruptedAudioStep ==
    /\ lastOp'.op = "onmessage"
    /\ msgCount' = msgCount + 1
    /\ lastOp'.msg.interrupted
    /\ lastOp'.msg.audio # 0

\* the message leaves the outbound buffer empty and starts no decode; the
\* active set is empty and the cursor 0 after it
InterruptedAudioDropped ==
    /\ currentOutputRef' = <<>>
    /\ pending' = pending
    /\ activeSourcesRef' = {}
    /\ nextStartTimeRef' = 0

\* C1 as stated: a message with interrupted and inline audio persists the
\* non-empty outbound buffer (with the fragment of the message itself) with
\* " [INTERRUPTED]" appended, empties the buffer and enqueues no audio.
C1_Original ==
    [][InterruptedAudioStep =>
        LET buf == currentOutputRef \o lastOp'.msg.outText
        IN  /\ InterruptedAudioDropped
            /\ buf # <<>> =>
                 \E i \in DOMAIN writes' :
                    writes'[i] = [role |-> "model",
                                  text |-> Trim(buf \o InterruptedMark),
                                  sessionId |-> sessionIdRef]]_vars

\* C1 amended: the same, but the marker write is issued when the message
\* does not also set turn-complete; when it does, the turn-complete step
\* has already persisted the buffer and no write carries the marker.
C1_InterruptedWithAudio ==
    [][InterruptedAudioStep =>
        LET m == lastOp'.msg
            buf == currentOutputRef \o m.outText
        IN  /\ InterruptedAudioDropped
            /\ (buf # <<>> /\ ~m.turnComplete) =>
                 writes' = <<[role |-> "model",
                              text |-> Trim(buf \o InterruptedMark),
                              sessionId |-> sessionIdRef]>>
            /\ m.turnComplete =>
                 \A i \in DOMAIN writes' : ~EndsWithMark(writes'[i].text)]_vars

C1_Witness ==
    /\ lastOp.op = "onmessage"
    /\ lastOp.msg.interrupted /\ lastOp.msg.audio # 0
    /\ ~lastOp.msg.turnComplete
    /\ outputContextRef # 0 /\ outputGainNodeRef # 0
    /\ msgCount = 2
    /\ Len(writes) = 1 /\ EndsWithMark(writes[1].text)
    /\ Len(writes[1].text) = 4
    /\ currentOutputRef = <<>> /\ pending = {}

\* C2: whenever the session identifier is replaced, both transcript buffers
\* are empty.
C2_BuffersEmptyAtNewId ==
    [][sessionIdRef' # sessionIdRef =>
        currentInputRef = <<>> /\ currentOutputRef = <<>>]_vars

\* C3: when an open channel reports a failure, status becomes error and the
\* teardown of disconnect() runs: buffers persisted and emptied, microphone
\* released, playing segments stopped.
C3_FailureTearsDown ==
    [][(lastOp'.op = "onerror" /\ lastOp' # lastOp
        /\ channel[lastOp'.chan] = "open") =>
        /\ status' = "error"
        /\ currentInputRef' = <<>> /\ currentOutputRef' = <<>>
        /\ streamRef \notin tracks'
        /\ activeSourcesRef' = {}]_vars

\* C4: when connect() k ends in its catch block, status is error after it
\* and the contexts, microphone stream and volume loop it acquired are
\* released.
C4_AcquisitionFailure ==
    (lastOp.op \in {"connect", "connectResume", "connectReject"}
     /\ lastOp.caught) =>
        /\ status = "error"
        /\ lastOp.chan \notin inputContexts
        /\ lastOp.chan \notin outputContexts
        /\ lastOp.chan \notin tracks
        /\ lastOp.chan \notin frames

\* C5: after disconnect() and until the next connect() call, no microphone
\* stream and no output context is held, no channel gets opened and status
\* stays disconnected.
C5_DisconnectedStaysReleased ==
    [][userStopped' =>
        /\ tracks' = {}
        /\ outputContexts' = {}
        /\ status' = "disconnected"
        /\ userStopped =>
             \A k \in Ids : channel'[k] \in {"opening", "open"} =>
                               channel'[k] = channel[k]]_vars

\* C6: a segment is never started before the scheduled start plus duration
\* of a segment started before it (and still scheduled), nor at a time
\* earlier than the clock time at the moment it is started.
C6_GaplessNeverInPast ==
    [][(lastOp'.op = "decoded" /\ ~lastOp'.caught /\ pending' # pending) =>
        /\ lastOp'.seg.start >= clock[lastOp'.seg.ctx]
        /\ \A a \in activeSourcesRef :
              lastOp'.seg.start >= a.start + a.dur]_vars

\* C7: after an interruption flush the active set is empty and the cursor
\* is 0, and the next segment enqueued starts at the clock time of its
\* enqueue.
C7_FlushResetsSchedule ==
    [][/\ (lastOp'.op = "onmessage" /\ msgCount' = msgCount + 1
           /\ lastOp'.msg.interrupted) =>
             activeSourcesRef' = {} /\ nextStartTimeRef' = 0
       /\ (lastOp'.op = "decoded" /\ ~lastOp'.caught /\ pending' # pending
           /\ lastOp'.seg.fresh) =>
             lastOp'.seg.start = lastOp'.seg.enq]_vars

\* C8: a disconnect() right after a disconnect() leaves status
\* disconnected, issues no persistence write and changes nothing the first
\* call left; status is disconnected after every disconnect().
C8_DisconnectIdempotent ==
    [][/\ (lastOp'.op = "disconnect" /\ clock' = clock) =>
             status' = "disconnected"
       /\ (lastOp'.op = "disconnect" /\ lastOp'.again) =>
             /\ writes' = <<>>
             /\ UNCHANGED <<status, isSpeaking, inputContextRef,
                            outputContextRef, outputGainNodeRef,
                            processorRef, nextStartTimeRef,
                            activeSourcesRef, sessionRef, streamRef,
                            currentInputRef, currentOutputRef, sessionIdRef,
                            rafIdRef, inputContexts, outputContexts, tracks,
                            frames, capture, stopped, pending, channel,
                            pc>>]_vars

C8_Witness ==
    /\ lastOp.op = "disconnect" /\ lastOp.again
    /\ status = "disconnected"
    /\ \E k \in Ids : channel[k] = "open"
    /\ msgCount > 0

\* C9: connect() without the API key sets status to error and does nothing
\* else: no context, no microphone, no channel, no new session identifier.
C9_NoKeyOnlyError ==
    [][lastOp'.op = "connectNoKey" =>
        /\ status' = "error"
        /\ UNCHANGED <<isSpeaking, inputContextRef, outputContextRef,
                       outputGainNodeRef, processorRef, nextStartTimeRef,
                       activeSourcesRef, sessionRef, streamRef,
                       currentInputRef, currentOutputRef, sessionIdRef,
                       rafIdRef, inputContexts, outputContexts, tracks,
                       frames, capture, stopped, pending, channel, pc>>]_vars

C9_Witness ==
    /\ lastOp.op = "connectNoKey"
    /\ status = "error"
    /\ sessionIdRef = 0 /\ tracks = {} /\ inputContexts = {}
    /\ \A k \in Ids : channel[k] = "none" /\ pc[k] = "none"

\* C10: once status is disconnected or error, no channel callback changes
\* it: it changes again only through a call of the user (a connect(); a
\* disconnect() that takes error to disconnected is not counted against the
\* claim).
C10_TerminalStatus ==
    [][(status \in {"disconnected", "error"} /\ status' # status) =>
        lastOp'.op \in {"connect", "connectNoKey", "disconnect"}]_vars

\* C11: at most one channel is open and at most one microphone stream is
\* held, in every reachable state.
C11_OneChannelOneStream ==
    /\ Cardinality({k \in Ids : channel[k] = "open"}) <= 1
    /\ Cardinality(tracks) <= 1

\* C12: after disconnect() and until the next connect() no inbound message
\* is processed: the transcript buffers stay empty, no handler issues a
\* persistence write and the speaking indicator stays false.
C12_NothingAfterDisconnect ==
    [][(userStopped /\ userStopped') =>
        /\ currentInputRef' = <<>> /\ currentOutputRef' = <<>>
        /\ isSpeaking' = FALSE
        /\ clock' = clock => writes' = <<>>]_vars

\* C13: the closed event runs the teardown of disconnect() (capture
\* stopped, microphone released), and no audio chunk is submitted on a
\* channel after its closed or failed event.
C13_ClosedStopsCapture ==
    /\ lastOp.op = "onclose" =>
          /\ streamRef = 0 /\ lastOp.chan \notin tracks
          /\ \A p \in capture : p.chan # lastOp.chan
    /\ lastOp.op = "sendRealtimeInput" =>
          channel[lastOp.chan] \notin {"closed", "failed"}

\* C14: an audio chunk is submitted only on a channel whose opened event has
\* fired, and no processor exists for a channel that has not opened.
C14_SendOnlyAfterOpened ==
    /\ lastOp.op = "sendRealtimeInput" =>
          channel[lastOp.chan] \in {"open", "closed"}
    /\ \A p \in capture : channel[p.chan] \in {"open", "closed"}

C14_Witness ==
    /\ lastOp.op = "sendRealtimeInput"
    /\ channel[lastOp.chan] = "open"
    /\ status = "connected"
    /\ lastOp.chan \in tracks

\* the writes a turn-complete flush issues for the buffers inB and outB of
\* session id: the user's first, then the model's; keep(b) says which
\* buffers are written
TurnWrites(inB, outB, id, keep(_)) ==
    (IF keep(inB)
     THEN <<[role |-> "user", text |-> Trim(inB), sessionId |-> id]>>
     ELSE <<>>)
    \o (IF keep(outB)
        THEN <<[role |-> "model", text |-> Trim(outB), sessionId |-> id]>>
        ELSE <<>>)

NonEmpty(b) == b # <<>>
NonBlank(b) == Trim(b) # <<>>

\* a step that handles a turn-complete message (the passing of time leaves
\* lastOp as it was)
TurnCompleteStep ==
    lastOp'.op = "onmessage" /\ lastOp'.msg.turnComplete /\ clock' = clock

\* C15 as stated: a turn-complete message issues one write per non-empty
\* buffer (user first, then model), none for an empty one, and leaves both
\* buffers empty; no write has empty text.
C15_Original ==
    [][/\ TurnCompleteStep =>
            /\ writes' = TurnWrites(currentInputRef \o lastOp'.msg.inText,
                                    currentOutputRef \o lastOp'.msg.outText,
                                    sessionIdRef, NonEmpty)
            /\ currentInputRef' = <<>> /\ currentOutputRef' = <<>>
       /\ \A i \in 1..Len(writes') : writes'[i].text # <<>>]_vars

\* C15 (amended): a turn-complete message issues one write per buffer that
\* holds more than white space (user first, then model, with the trimmed
\* text), none for an empty or blank one, and leaves both buffers empty; no
\* write has empty text.
C15_OneWritePerNonBlankBuffer ==
    [][/\ TurnCompleteStep =>
            /\ writes' = TurnWrites(currentInputRef \o lastOp'.msg.inText,
                                    currentOutputRef \o lastOp'.msg.outText,
                                    sessionIdRef, NonBlank)
            /\ currentInputRef' = <<>> /\ currentOutputRef' = <<>>
       /\ \A i \in 1..Len(writes') : writes'[i].text # <<>>]_vars

C15_Witness ==
    /\ lastOp.op = "onmessage" /\ lastOp.msg.turnComplete
    /\ lastOp.msg.inText = <<Blank>> /\ lastOp.msg.outText = <<"a">>
    /\ msgCount = 2
    /\ Len(writes) = 1 /\ writes[1].role = "model"
    /\ writes[1].text = <<"a", "a">>
    /\ currentInputRef = <<>> /\ currentOutputRef = <<>>

C17_DrainedNotSpeaking ==
    (pending = {} /\ activeSourcesRef = {} /\ stopped = 0) => ~isSpeaking

\* C18: scheduled segments start in the order their messages arrived.
C18_ScheduledInArrivalOrder ==
    \A a, b \in activeSourcesRef : a.id < b.id => a.start < b.start

\* C19: from an interruption flush until the next audio message the active
\* set is empty and the cursor is 0, and from disconnect() until the next
\* connect() the active set is empty: a decode completing late adds nothing.
C19_StaleDecodeDiscarded ==
    /\ flushed => activeSourcesRef = {} /\ nextStartTimeRef = 0
    /\ userStopped => activeSourcesRef = {}

\* C20: a buffer is emptied in the step that hands its content to the
\* persistence collaborator, and a step writes a buffer at most once: no
\* fragment reaches two writes.
C20_WrittenBufferEmptied ==
    /\ \A i \in 1..Len(writes) :
          /\ writes[i].role = "user" => currentInputRef = <<>>
          /\ writes[i].role = "model" => currentOutputRef = <<>>
    /\ \A i, j \in 1..Len(writes) :
          writes[i].role = writes[j].role => i = j

C20_Witness ==
    /\ lastOp.op = "onmessage"
    /\ lastOp.msg.turnComplete /\ lastOp.msg.interrupted
    /\ Len(writes) = 2
    /\ writes[1].role = "user" /\ writes[2].role = "model"
    /\ currentInputRef = <<>> /\ currentOutputRef = <<>>

\* C21: the first audio message enqueued for the output context of a
\* session started by connect() after the session before it was torn down,
\* arriving on that session's channel, is given the current time of that
\* context as its start, not a cursor left by the session before.
C21_FirstSegmentStartsNow ==
    [][(/\ lastOp'.op = "onmessage" /\ msgCount' = msgCount + 1
        /\ pending' # pending
        /\ outputContextRef > 1
        /\ \A k \in 1..(outputContextRef - 1) : k \notin outputContexts
        /\ lastOp'.chan = outputContextRef
        /\ outputContextRef \notin enqueued) =>
          nextStartTimeRef' = clock[outputContextRef]]_vars

====
